---- MODULE Spec2Model ----
(***************************************************************************)
(* Model of the inventree-wireviz frontend panels.                         *)
(*                                                                         *)
(* The part panel (frontend/src/WirevizPanel.tsx) is a React function      *)
(* component: every render computes an element tree from the plugin        *)
(* context handed over by the host, React commits that tree to the page,   *)
(* and two host forms (upload, delete) reload the page on success.         *)
(*                                                                         *)
(* JavaScript values are tagged records, so that `??`, `!!`, `&&` and      *)
(* property access are computed as the language computes them.  An object  *)
(* is a record of its properties; a property that is absent holds          *)
(* Undefined, which is what reading it yields.                             *)
(***************************************************************************)
EXTENDS Integers, Sequences, FiniteSets, TLC

VARIABLES
    context,    \* the InvenTreePluginContext the host passes to the panel
    view,       \* the element tree returned by the last render of WirevizPanel
    mounted,    \* what React has committed for the two keyed alert lists
    modal,      \* which host form is open: "none", "newDiagram", "deleteDiagram"
    request,    \* the submission in flight: "none", "upload", "delete"
    page,       \* "loaded", or "reloading" after window.location.reload()
    server,     \* the plugin payload the host would serve for this part
    rev,        \* number of mutations the server has applied for this part
    shownRev,   \* the value of rev when the displayed context was fetched
    panel,      \* the mounted component: "part", "settings" or "dashboard"
    navigations,      \* the urls passed to context.navigate, in order
    posted,           \* the fields of the last submitted form
    response,         \* the last outcome the host reported for a submission
    selectedTemplate, \* WirevizSettings: the useState value
    queued,           \* WirevizSettings: state updates waiting for the next render
    formFields,       \* WirevizSettings: the fields the deleteTemplate modal holds
    clicked           \* the template of the row whose delete button was clicked last

hostVars == <<panel, navigations, posted, response>>

settingsVars == <<selectedTemplate, queued, formFields, clicked>>

vars == <<context, view, mounted, modal, request, page, server, rev, shownRev,
          panel, navigations, posted, response,
          selectedTemplate, queued, formFields, clicked>>

-----------------------------------------------------------------------------
(* Bounds *)

MaxRows == 2        \* longest wireviz_bom_data sequence
MaxMsgs == 2        \* longest wireviz_errors / wireviz_warnings sequence
MaxStale == 2       \* most leaked alert lines kept on the page
MaxRev == 2         \* most mutations the server applies
MaxNav == 2         \* most navigations away from a panel
MaxTemplates == 2   \* most harness templates listed in the settings panel

-----------------------------------------------------------------------------
(* JavaScript values *)

Undefined == [t |-> "undefined"]
Null == [t |-> "null"]
Bool(b) == [t |-> "boolean", b |-> b]
Num(n) == [t |-> "number", n |-> n]
Str(s) == [t |-> "string", s |-> s]
Arr(a) == [t |-> "array", a |-> a]
Obj(o) == [t |-> "object", o |-> o]

\* ToBoolean: what `!!v`, `v && ...` and `v ? a : b` test
Truthy(v) ==
    CASE v.t = "undefined" -> FALSE
      [] v.t = "null" -> FALSE
      [] v.t = "boolean" -> v.b
      [] v.t = "number" -> v.n # 0
      [] v.t = "string" -> v.s # ""
      [] OTHER -> TRUE

Nullish(v) == v.t \in {"undefined", "null"}

\* `v ?? d`
Coalesce(v, d) == IF Nullish(v) THEN d ELSE v

\* `v.f` for a value that is not nullish: a missing property reads undefined
Get(v, f) ==
    IF v.t = "object" /\ f \in DOMAIN v.o THEN v.o[f] ELSE Undefined

\* `v?.f`
OptGet(v, f) == IF Nullish(v) THEN Undefined ELSE Get(v, f)

\* `v.length`
LengthOf(v) ==
    CASE v.t = "array" -> Num(Len(v.a))
      [] v.t = "string" -> Num(Len(v.s))
      [] OTHER -> Get(v, "length")

\* `v > 0`: undefined converts to NaN, which compares false
GreaterThanZero(v) == v.t = "number" /\ v.n > 0

\* `v.map` is a function only on arrays
HasMap(v) == v.t = "array"

\* template-literal / key conversion of a value to a string
ToStr(v) ==
    CASE v.t = "string" -> v.s
      [] v.t = "number" -> ToString(v.n)
      [] v.t = "boolean" -> IF v.b THEN "true" ELSE "false"
      [] v.t = "null" -> "null"
      [] v.t = "undefined" -> "undefined"
      [] OTHER -> "[object Object]"

-----------------------------------------------------------------------------
(* WirevizBomRow *)

\* getDetailUrl(ModelType.part, pk, true) of @inventreedb/ui: the part detail
\* url template with the primary key substituted, '' when pk is missing
getDetailUrl(pk) ==
    IF Truthy(pk) THEN Str("/part/" \o ToStr(pk) \o "/") ELSE Str("")

\* variant: the link is guarded by sub_part alone
partLinkUnguarded(row) ==
    IF Truthy(Get(row, "sub_part"))
    THEN getDetailUrl(Get(row, "sub_part"))
    ELSE Str("")

\* variant: the link is built from the line position instead of the part
partLinkFromIdx(row) ==
    IF Truthy(Get(row, "sub_part")) /\ Truthy(Get(row, "pn"))
    THEN getDetailUrl(Get(row, "idx"))
    ELSE Str("")

partLink(row) ==
    IF Truthy(Get(row, "sub_part")) /\ Truthy(Get(row, "pn"))
    THEN getDetailUrl(Get(row, "sub_part"))
    ELSE Str("")

\* reading row.sub_part throws a TypeError when row is null or undefined
RowThrows(row) == Nullish(row)

WirevizBomRow(row) ==
    [ trKey |-> "bom-" \o ToStr(Get(row, "idx")),
      idx |-> Get(row, "idx"),
      designators |-> Get(row, "designators"),
      description |-> Get(row, "description"),
      quantity |-> Get(row, "quantity"),
      unit |-> IF Truthy(Get(row, "unit")) THEN <<Get(row, "unit")>> ELSE <<>>,
      part |-> IF Truthy(partLink(row))
               THEN [el |-> "Anchor", href |-> partLink(row), text |-> Get(row, "pn")]
               ELSE [el |-> "Text", href |-> Str(""), text |-> Str("-")] ]

-----------------------------------------------------------------------------
(* WirevizPanel: the values derived from the host context *)

wirevizContext(ctx) == Coalesce(OptGet(ctx, "context"), Obj(<<>>))

bomRows(ctx) == Coalesce(Get(wirevizContext(ctx), "wireviz_bom_data"), Arr(<<>>))

wirevizDiagram(ctx) == Coalesce(Get(wirevizContext(ctx), "wireviz_svg_file"), Null)

wirevizErrors(ctx) == Coalesce(Get(wirevizContext(ctx), "wireviz_errors"), Arr(<<>>))

wirevizWarnings(ctx) == Coalesce(Get(wirevizContext(ctx), "wireviz_warnings"), Arr(<<>>))

\* variant: the source file is read without the `?? null` fallback
wirevizSourceRaw(ctx) == Get(wirevizContext(ctx), "wireviz_source_file")

wirevizSource(ctx) == Coalesce(Get(wirevizContext(ctx), "wireviz_source_file"), Null)

canEdit(ctx) ==
    Coalesce(OptGet(Get(wirevizContext(ctx), "context"), "can_edit"), Bool(FALSE))

-----------------------------------------------------------------------------
(* WirevizPanel: the returned element tree *)

\* variant: the guard tests the list for truthiness only
AlertGuardTruthy(list) == Truthy(list)

\* `list && list.length > 0 && (...)`
AlertGuard(list) == Truthy(list) /\ GreaterThanZero(LengthOf(list))

\* list.map((m) => <Text key={m}>{m}</Text>)
AlertLines(list) ==
    [i \in 1..Len(list.a) |-> [key |-> ToStr(list.a[i]), text |-> list.a[i]]]

\* variant: the block is rendered without its guard
AlertBlockAlways(list, color, title) ==
    << [color |-> color, title |-> title,
        lines |-> IF HasMap(list) THEN AlertLines(list) ELSE << >>] >>

\* the 0 or 1 <Alert> blocks rendered for a message list
AlertBlock(list, color, title) ==
    IF AlertGuard(list)
    THEN << [color |-> color, title |-> title, lines |-> AlertLines(list)] >>
    ELSE << >>

\* the guard passed and `.map` is not a function: TypeError
AlertThrows(list) == AlertGuard(list) /\ ~HasMap(list)

\* variant: the image is shown for every value other than null
DiagramSlotNonNull(ctx) ==
    IF wirevizDiagram(ctx) # Null
    THEN << [el |-> "Image", src |-> wirevizDiagram(ctx), title |-> ""] >>
    ELSE << [el |-> "Alert", src |-> Null, title |-> "No Diagram Available"] >>

\* `wirevizDiagram ? <Image/> : <Alert/>`
DiagramSlot(ctx) ==
    IF Truthy(wirevizDiagram(ctx))
    THEN << [el |-> "Image", src |-> wirevizDiagram(ctx), title |-> ""] >>
    ELSE << [el |-> "Alert", src |-> Null, title |-> "No Diagram Available"] >>

\* variant: the rows are rendered last to first
TableBodyReversed(ctx) ==
    [i \in 1..Len(bomRows(ctx).a) |->
        [key |-> Null,
         tr |-> WirevizBomRow(bomRows(ctx).a[Len(bomRows(ctx).a) + 1 - i])]]

\* bomRows.map((row) => <WirevizBomRow row={row} context={context}/>):
\* the list elements are given no key prop
TableBody(ctx) ==
    [i \in 1..Len(bomRows(ctx).a) |->
        [key |-> Null, tr |-> WirevizBomRow(bomRows(ctx).a[i])]]

BomThrows(ctx) ==
    \/ ~HasMap(bomRows(ctx))
    \/ \E i \in 1..Len(bomRows(ctx).a) : RowThrows(bomRows(ctx).a[i])

\* variant: the section links to the diagram instead of the source file
SourceSectionToDiagram(ctx) ==
    IF Truthy(wirevizSource(ctx))
    THEN << [el |-> "Anchor", href |-> wirevizDiagram(ctx)] >>
    ELSE << >>

\* `wirevizSource && <Paper><Anchor href={wirevizSource}/></Paper>`
SourceSection(ctx) ==
    IF Truthy(wirevizSource(ctx))
    THEN << [el |-> "Anchor", href |-> wirevizSource(ctx)] >>
    ELSE << >>

\* `canEdit && <Menu>`, with "Remove Diagram" under `wirevizSource && ...`
ActionsMenu(ctx) ==
    IF Truthy(canEdit(ctx))
    THEN << << "newDiagram" >> \o
            (IF Truthy(wirevizSource(ctx)) THEN << "deleteDiagram" >> ELSE << >>) >>
    ELSE << >>

\* `canEdit && newDiagram.modal`, `canEdit && deleteDiagram.modal`
Modals(ctx) ==
    IF Truthy(canEdit(ctx)) THEN << "newDiagram", "deleteDiagram" >> ELSE << >>

TableHead == << "ID", "Designators", "Description", "Quantity", "Part" >>

Thrown == [threw |-> TRUE]

RenderThrows(ctx) ==
    \/ AlertThrows(wirevizErrors(ctx))
    \/ AlertThrows(wirevizWarnings(ctx))
    \/ BomThrows(ctx)

\* variant: the table is rendered only below a diagram
WirevizPanelGated(ctx) ==
    IF RenderThrows(ctx)
    THEN Thrown
    ELSE [ threw |-> FALSE,
           modals |-> Modals(ctx),
           errorAlert |-> AlertBlock(wirevizErrors(ctx), "red", "Wireviz Errors"),
           warningAlert |-> AlertBlock(wirevizWarnings(ctx), "yellow", "Wireviz Warnings"),
           menu |-> ActionsMenu(ctx),
           diagram |-> DiagramSlot(ctx),
           head |-> IF Truthy(wirevizDiagram(ctx)) THEN TableHead ELSE << >>,
           body |-> IF Truthy(wirevizDiagram(ctx)) THEN TableBody(ctx) ELSE << >>,
           source |-> SourceSection(ctx) ]

\* the element tree of one render: alerts, menu, diagram slot, BOM table
\* and source link, each under its own guard
WirevizPanel(ctx) ==
    IF RenderThrows(ctx)
    THEN Thrown
    ELSE [ threw |-> FALSE,
           modals |-> Modals(ctx),
           errorAlert |-> AlertBlock(wirevizErrors(ctx), "red", "Wireviz Errors"),
           warningAlert |-> AlertBlock(wirevizWarnings(ctx), "yellow", "Wireviz Warnings"),
           menu |-> ActionsMenu(ctx),
           diagram |-> DiagramSlot(ctx),
           head |-> TableHead,
           body |-> TableBody(ctx),
           source |-> SourceSection(ctx) ]

-----------------------------------------------------------------------------
(* React: committing a keyed child list *)

\* length of the longest prefix on which the old and new keys agree
\* (the first loop of the child reconciler stops at the first mismatch)
RECURSIVE CommonPrefix(_, _)
CommonPrefix(old, new) ==
    IF old # << >> /\ new # << >> /\ Head(old).key = Head(new).key
    THEN 1 + CommonPrefix(Tail(old), Tail(new))
    ELSE 0

\* the old children that are put in the key -> child map and overwritten
\* there by a later sibling with the same key: they are neither reused nor
\* deleted, so their nodes stay on the page
RECURSIVE Overwritten(_)
Overwritten(rest) ==
    IF rest = << >> THEN << >>
    ELSE (IF \E j \in 2..Len(rest) : rest[j].key = Head(rest).key
          THEN << Head(rest).text >> ELSE << >>) \o Overwritten(Tail(rest))

Leaked(old, new) ==
    LET p == CommonPrefix(old, new)
    IN IF p = Len(new) \/ p = Len(old)
       THEN << >>
       ELSE Overwritten(SubSeq(old, p + 1, Len(old)))

\* a list being mounted for the first time creates every child
MountList(block) ==
    IF block = << >>
    THEN [shown |-> FALSE, fibers |-> << >>, stale |-> << >>]
    ELSE [shown |-> TRUE, fibers |-> block[1].lines, stale |-> << >>]

\* a list that stays mounted is reconciled against its previous children
CommitList(was, block) ==
    IF block = << >> \/ ~was.shown
    THEN MountList(block)
    ELSE [shown |-> TRUE,
          fibers |-> block[1].lines,
          stale |-> was.stale \o Leaked(was.fibers, block[1].lines)]

Unmounted == [shown |-> FALSE, fibers |-> << >>, stale |-> << >>]

Mount(tree) ==
    IF tree.threw
    THEN [errors |-> Unmounted, warnings |-> Unmounted]
    ELSE [errors |-> MountList(tree.errorAlert),
          warnings |-> MountList(tree.warningAlert)]

Commit(was, tree) ==
    IF tree.threw
    THEN [errors |-> Unmounted, warnings |-> Unmounted]
    ELSE [errors |-> CommitList(was.errors, tree.errorAlert),
          warnings |-> CommitList(was.warnings, tree.warningAlert)]

\* the message lines a list shows on the page: those of its current children
\* and the leaked ones (listed last; their place among the others is not kept)
Displayed(list) == [i \in 1..Len(list.fibers) |-> list.fibers[i].text] \o list.stale

-----------------------------------------------------------------------------
(* Host contexts *)

\* the payload the plugin serves in context.context; `part` is a field the
\* panel does not read, `context` is the nested object canEdit is read from
Payload(svg, source, bom, errors, warnings, inner, part) ==
    Obj([ wireviz_svg_file |-> svg,
          wireviz_source_file |-> source,
          wireviz_bom_data |-> bom,
          wireviz_errors |-> errors,
          wireviz_warnings |-> warnings,
          context |-> inner,
          part |-> part ])

PartId == 123

\* the InvenTreePluginContext: the part id and the plugin payload
PluginContext(payload) == Obj([id |-> Num(PartId), context |-> payload])

BomEntry(idx, sub_part, pn, unit) ==
    Obj([ idx |-> idx,
          designators |-> Str("W1"),
          description |-> Str("Cable"),
          quantity |-> Num(1),
          unit |-> unit,
          pn |-> pn,
          sub_part |-> sub_part ])

\* all sequences over S of length at most n
SeqsUpTo(S, n) == UNION { [1..k -> S] : k \in 0..n }

SubPartValues == { Undefined, Null, Num(0), Num(5), Num(6) }
PnValues == { Undefined, Null, Str(""), Str("R1"), Str("R2") }

\* every combination of sub_part and pn, in a one-line BOM
GridEntries ==
    { BomEntry(Num(idx), sp, pn, unit) :
        idx \in {1, 2}, sp \in SubPartValues, pn \in PnValues,
        unit \in {Null, Str("m")} }

\* line items for longer BOMs: idx in any order, shared and distinct parts,
\* an unmatched line and a line that has only its designators
ListEntries ==
    { BomEntry(Num(idx), x[1], x[2], x[3]) :
        idx \in {1, 2},
        x \in { <<Num(5), Str("R1"), Null>>, <<Num(5), Str("R2"), Str("m")>>,
                <<Num(6), Str("R1"), Null>>, <<Null, Str("R1"), Null>> } }
    \cup { Obj([designators |-> Str("X1")]) }

BomLists ==
    { Arr(<< e >>) : e \in GridEntries }
    \cup { Arr(l) : l \in SeqsUpTo(ListEntries, MaxRows) }

BomContexts ==
    { PluginContext(Payload(Str("a.svg"), Str("h.wireviz"), bom,
                            Arr(<< >>), Arr(<< >>), Undefined, Num(PartId))) :
        bom \in BomLists }

-----------------------------------------------------------------------------
(* Actions *)

\* no submission has been answered yet
NoResponse == [ok |-> FALSE, data |-> Undefined]

\* the host reported that the submission failed
Failed == [ok |-> FALSE, data |-> Str("error")]

\* the host reported success and passed `data` to onFormSuccess
Succeeded(data) == [ok |-> TRUE, data |-> data]

\* the host mounts the panel with the context it fetched
Load(c) ==
    /\ context = c
    /\ view = WirevizPanel(c)
    /\ mounted = Mount(WirevizPanel(c))
    /\ modal = "none"
    /\ request = "none"
    /\ page = "loaded"
    /\ server = Get(c, "context")
    /\ rev = 0
    /\ shownRev = 0
    /\ panel = "part"
    /\ navigations = << >>
    /\ posted = Undefined
    /\ response = NoResponse
    /\ selectedTemplate = Null
    /\ queued = << >>
    /\ formFields = Undefined
    /\ clicked = Null

\* the host passes a new context to the mounted panel, which renders again
\* (the context is what the host last fetched from the server)
HostUpdate(c) ==
    LET tree == WirevizPanel(c)
    IN /\ page = "loaded"
       /\ context' = c
       /\ server' = Get(c, "context")
       /\ view' = tree
       /\ mounted' = Commit(mounted, tree)
       /\ Len(mounted'.errors.stale) <= MaxStale
       /\ Len(mounted'.warnings.stale) <= MaxStale
       /\ shownRev' = rev
       /\ UNCHANGED <<modal, request, page, rev, hostVars, settingsVars>>

\* variant: a success callback that leaves the page as it is
\* (as the template forms of the settings panel do)
OnFormSuccessNoReload(form) == "loaded"

\* onFormSuccess of deleteDiagram and of newDiagram: window.location.reload()
OnFormSuccess(form) ==
    CASE form = "deleteDiagram" -> "reloading"
      [] form = "newDiagram" -> "reloading"

\* the menu items of the rendered panel: newDiagram.open, deleteDiagram.open
Offered == IF view.threw \/ view.menu = << >> THEN {} ELSE
    { view.menu[1][i] : i \in 1..Len(view.menu[1]) }

\* the user picks a menu item and the host opens that form
OpenForm(form) ==
    /\ page = "loaded"
    /\ modal = "none"
    /\ form \in Offered
    /\ modal' = form
    /\ UNCHANGED <<context, view, mounted, request, page, server, rev, shownRev,
                   hostVars, settingsVars>>

\* the open form is on screen: in the part panel the modals are rendered
\* under `canEdit && ...`
ModalShown ==
    /\ modal # "none"
    /\ panel = "part"
          => /\ ~view.threw
             /\ \E i \in 1..Len(view.modals) : view.modals[i] = modal

\* the user closes the open form without submitting it
CancelForm ==
    /\ page = "loaded"
    /\ ModalShown
    /\ request = "none"
    /\ modal' = "none"
    /\ UNCHANGED <<context, view, mounted, request, page, server, rev, shownRev,
                   hostVars, settingsVars>>

\* variant: submitting already blanks the panel, before the host answers
SubmitFormOptimistic ==
    /\ page = "loaded"
    /\ ModalShown
    /\ request = "none"
    /\ request' = modal
    /\ posted' = Obj([part |-> Get(context, "id")])
    /\ view' = WirevizPanel(PluginContext(Null))
    /\ UNCHANGED <<context, mounted, modal, page, server, rev, shownRev,
                   panel, navigations, response, settingsVars>>

\* the user submits the open form: the host posts it to the form's url
\* with part = context.id
SubmitForm ==
    /\ page = "loaded"
    /\ ModalShown
    /\ request = "none"
    /\ request' = modal
    /\ posted' = Obj([part |-> Get(context, "id")])
    /\ UNCHANGED <<context, view, mounted, modal, page, server, rev, shownRev,
                   panel, navigations, response, settingsVars>>

\* what the server holds for the part once the delete endpoint has run
Deleted(payload) ==
    Obj([payload.o EXCEPT !["wireviz_svg_file"] = Null,
                          !["wireviz_source_file"] = Null,
                          !["wireviz_bom_data"] = Arr(<< >>),
                          !["wireviz_errors"] = Arr(<< >>),
                          !["wireviz_warnings"] = Arr(<< >>)])

\* what the server holds once the upload endpoint has processed a file
Uploaded(payload, r) ==
    Obj([payload.o EXCEPT !["wireviz_svg_file"] = r[1],
                          !["wireviz_source_file"] = r[2],
                          !["wireviz_bom_data"] = r[3],
                          !["wireviz_errors"] = r[4],
                          !["wireviz_warnings"] = r[5]])

\* outcomes of processing an uploaded file: a diagram with its BOM, a
\* diagram with a warning, and a file that could not be drawn
UploadResults ==
    { << Str("a.svg"), Str("h.wireviz"),
         Arr(<< BomEntry(Num(1), Num(5), Str("R1"), Null) >>), Arr(<< >>), Arr(<< >>) >>,
      << Str("b.svg"), Str("g.wireviz"),
         Arr(<< BomEntry(Num(1), Null, Str("R2"), Null) >>), Arr(<< >>), Arr(<< Str("y") >>) >>,
      << Null, Str("g.wireviz"), Arr(<< >>), Arr(<< Str("x") >>), Arr(<< >>) >> }

\* the host reports success: the server has applied the request, the form
\* closes and the form's onFormSuccess callback runs
FormSuccess ==
    /\ page = "loaded"
    /\ request # "none"
    /\ rev < MaxRev
    /\ \/ /\ request = "deleteDiagram"
          /\ server' = Deleted(server)
       \/ /\ request = "newDiagram"
          /\ \E r \in UploadResults : server' = Uploaded(server, r)
    /\ rev' = rev + 1
    /\ request' = "none"
    /\ modal' = "none"
    /\ page' = OnFormSuccess(request)
    /\ response' = Succeeded(Obj([part |-> Get(posted, "part")]))
    /\ UNCHANGED <<context, view, mounted, shownRev, panel, navigations, posted,
                   settingsVars>>

\* the host reports a failure: the form stays open, no callback runs
FormFailure ==
    /\ page = "loaded"
    /\ request # "none"
    /\ request' = "none"
    /\ response' = Failed
    /\ UNCHANGED <<context, view, mounted, modal, page, server, rev, shownRev,
                   panel, navigations, posted, settingsVars>>

\* the reloaded page fetches the context and mounts the panel anew
PageLoad ==
    LET tree == WirevizPanel(PluginContext(server))
    IN /\ page = "reloading"
       /\ page' = "loaded"
       /\ context' = PluginContext(server)
       /\ view' = tree
       /\ mounted' = Mount(tree)
       /\ shownRev' = rev
       /\ UNCHANGED <<modal, request, server, rev, hostVars, settingsVars>>

-----------------------------------------------------------------------------
(* The panel over bills of materials *)

InitBom == \E c \in BomContexts : Load(c)

UpdateBom == \E c \in BomContexts : HostUpdate(c)

NextBom == UpdateBom

SpecBom == InitBom /\ [][NextBom]_vars

-----------------------------------------------------------------------------
(* Properties of the BOM rows *)

\* the i-th entry of the BOM in the present context, and its rendered row
EntryAt(i) == bomRows(context).a[i]
RowAt(i) == view.body[i].tr
RowIndices == IF view.threw THEN {} ELSE 1..Len(view.body)

HasLink(tr) == tr.part.el = "Anchor" /\ tr.part.href # Str("")
HasDash(tr) == tr.part.el = "Text" /\ tr.part.text = Str("-")

\* C1 as stated: a row has a part link exactly when sub_part is non-null
\* and pn is non-null, and shows the dash otherwise.
C1_AsStated ==
    \A i \in RowIndices :
        /\ HasLink(RowAt(i)) <=>
              (~Nullish(Get(EntryAt(i), "sub_part")) /\ ~Nullish(Get(EntryAt(i), "pn")))
        /\ ~HasLink(RowAt(i)) => HasDash(RowAt(i))

\* C1 amended: a row has a part link exactly when sub_part is neither
\* missing, null nor 0 and pn is neither missing, null nor the empty string;
\* every other row shows the dash and no link.
C1_LinkIffBothTruthy ==
    \A i \in RowIndices :
        /\ HasLink(RowAt(i)) <=>
              /\ Get(EntryAt(i), "sub_part") \notin {Undefined, Null, Num(0)}
              /\ Get(EntryAt(i), "pn") \notin {Undefined, Null, Str("")}
        /\ ~HasLink(RowAt(i)) => HasDash(RowAt(i))
        /\ HasLink(RowAt(i)) => ~HasDash(RowAt(i))

\* a matched part whose pn is the empty string is shown with the dash, next
\* to nothing else: the case the amendment is about
C1_Witness ==
    /\ RowIndices = {1}
    /\ Get(EntryAt(1), "sub_part") = Num(5)
    /\ Get(EntryAt(1), "pn") = Str("")
    /\ HasDash(RowAt(1))

\* C2 as stated: every entry with sub_part and pn both set (non-null) has a
\* link, and links agree exactly when the sub_parts agree.
C2_AsStated ==
    \A i \in RowIndices :
        (~Nullish(Get(EntryAt(i), "sub_part")) /\ ~Nullish(Get(EntryAt(i), "pn")))
            => /\ HasLink(RowAt(i))
               /\ \A j \in RowIndices :
                    (~Nullish(Get(EntryAt(j), "sub_part")) /\ ~Nullish(Get(EntryAt(j), "pn")))
                        => ((RowAt(i).part.href = RowAt(j).part.href)
                              <=> (Get(EntryAt(i), "sub_part") = Get(EntryAt(j), "sub_part")))

Linkable(e) == Truthy(Get(e, "sub_part")) /\ Truthy(Get(e, "pn"))

\* C2 amended: every entry whose sub_part is non-null and non-zero and whose
\* pn is non-null and non-empty has a link; two such entries have the same
\* link exactly when they have the same sub_part, whatever their other fields.
C2_LinkFromSubPartAlone ==
    \A i \in RowIndices :
        Linkable(EntryAt(i))
            => /\ HasLink(RowAt(i))
               /\ \A j \in RowIndices :
                    Linkable(EntryAt(j))
                        => ((RowAt(i).part.href = RowAt(j).part.href)
                              <=> (Get(EntryAt(i), "sub_part") = Get(EntryAt(j), "sub_part")))

\* two linked lines of one BOM that name the same part under different pn
\* and idx, and a BOM with two different linked parts
C2_Witness ==
    /\ Len(view.body) = 2
    /\ Linkable(EntryAt(1)) /\ Linkable(EntryAt(2))
    /\ Get(EntryAt(1), "sub_part") = Get(EntryAt(2), "sub_part")
    /\ Get(EntryAt(1), "pn") # Get(EntryAt(2), "pn")
    /\ Get(EntryAt(1), "idx") # Get(EntryAt(2), "idx")
    /\ RowAt(1).part.href = RowAt(2).part.href

\* C3: the table body has one row per BOM entry and the i-th row shows the
\* i-th entry, whatever the idx values are and whatever fields are missing.
C3_RowsFollowInput ==
    /\ ~view.threw
    /\ Len(view.body) = Len(bomRows(context).a)
    /\ \A i \in RowIndices :
          /\ RowAt(i).idx = Get(EntryAt(i), "idx")
          /\ RowAt(i).designators = Get(EntryAt(i), "designators")
          /\ RowAt(i).description = Get(EntryAt(i), "description")
          /\ RowAt(i).quantity = Get(EntryAt(i), "quantity")
          /\ RowAt(i).part.text \in {Get(EntryAt(i), "pn"), Str("-")}

\* a BOM whose idx values descend, with a line that lacks its fields
C3_Witness ==
    /\ Len(view.body) = 2
    /\ Get(EntryAt(1), "idx") = Num(2)
    /\ Get(EntryAt(2), "idx") = Undefined
    /\ RowAt(1).idx = Num(2)
    /\ RowAt(2).designators = Str("X1")

-----------------------------------------------------------------------------
(* The panel over error and warning lists *)

Messages == { Str("x"), Str("y") }

MsgLists == { Undefined, Null } \cup { Arr(l) : l \in SeqsUpTo(Messages, MaxMsgs) }

FewLists == { Undefined, Arr(<< >>), Arr(<< Str("x") >>) }

AlertPairs ==
    (MsgLists \X FewLists) \cup (FewLists \X MsgLists)

AlertContexts ==
    { PluginContext(Payload(Str("a.svg"), Str("h.wireviz"), Arr(<< >>),
                            x[1], x[2], Undefined, Num(PartId))) :
        x \in AlertPairs }

InitAlerts == \E c \in AlertContexts : Load(c)

UpdateAlerts == \E c \in AlertContexts : HostUpdate(c)

NextAlerts == UpdateAlerts

SpecAlerts == InitAlerts /\ [][NextAlerts]_vars

-----------------------------------------------------------------------------
(* The panel over present, null and absent fields *)

SvgValues == { Undefined, Null, Str(""), Str("a.svg"), Str("b.svg") }
SourceValues == { Undefined, Null, Str(""), Str("h.wireviz"), Str("g.wireviz") }
InnerValues ==
    { Undefined, Obj([can_edit |-> Bool(TRUE)]), Obj([can_edit |-> Bool(FALSE)]) }
ExtraValues == { Undefined, Num(PartId) }

\* every diagram and source file value, with the other fields in place
ScalarContexts ==
    { PluginContext(Payload(svg, source, Arr(<< >>), Arr(<< >>), Arr(<< >>),
                            inner, part)) :
        svg \in SvgValues, source \in SourceValues,
        inner \in InnerValues, part \in ExtraValues }

OneRow == Arr(<< BomEntry(Num(1), Num(5), Str("R1"), Null) >>)

\* every subset of the five fields absent, null or present
PartialContexts ==
    { PluginContext(Payload(svg, source, bom, errors, warnings, Undefined, part)) :
        svg \in { Undefined, Null, Str("a.svg") },
        source \in { Undefined, Null, Str("h.wireviz") },
        bom \in { Undefined, Null, OneRow },
        errors \in { Undefined, Arr(<< Str("x") >>) },
        warnings \in { Undefined, Arr(<< Str("y") >>) },
        part \in ExtraValues }

\* the host context carries no plugin payload at all
BareContexts == { PluginContext(Undefined), PluginContext(Null) }

FieldContexts == ScalarContexts \cup PartialContexts \cup BareContexts

InitFields == \E c \in FieldContexts : Load(c)

UpdateFields == \E c \in FieldContexts : HostUpdate(c)

NextFields == UpdateFields

SpecFields == InitFields /\ [][NextFields]_vars

-----------------------------------------------------------------------------
(* Properties of the diagram slot, the alerts and the source link *)

\* the field as the host supplied it, Undefined when it is absent
RawField(f) == OptGet(Get(context, "context"), f)

\* the present context with one payload field replaced
WithField(f, v) ==
    PluginContext(Obj([Get(context, "context").o EXCEPT ![f] = v]))

HasPayload == Get(context, "context").t = "object"

NonEmptyString(v) == v.t = "string" /\ v.s # ""
NonEmptyArray(v) == v.t = "array" /\ v.a # << >>

\* C4: the diagram slot holds exactly one element; it is the image exactly
\* when wireviz_svg_file is a non-empty string, and the "No Diagram
\* Available" alert when it is null, absent or ""; no image has an empty src.
C4_ImageXorAlert ==
    /\ ~view.threw
    /\ Len(view.diagram) = 1
    /\ view.diagram[1].el \in {"Image", "Alert"}
    /\ view.diagram[1].el = "Image" <=> NonEmptyString(RawField("wireviz_svg_file"))
    /\ RawField("wireviz_svg_file") \in {Undefined, Null, Str("")}
          => /\ view.diagram[1].el = "Alert"
             /\ view.diagram[1].title = "No Diagram Available"
    /\ view.diagram[1].el = "Image"
          => /\ view.diagram[1].src = RawField("wireviz_svg_file")
             /\ view.diagram[1].src \notin {Undefined, Null, Str("")}

\* the empty string, which is not null, gets the alert
C4_Witness ==
    /\ RawField("wireviz_svg_file") = Str("")
    /\ view.diagram = << [el |-> "Alert", src |-> Null, title |-> "No Diagram Available"] >>

\* C5: the error block is rendered exactly when wireviz_errors is a non-empty
\* sequence, the warning block exactly when wireviz_warnings is; an absent
\* list renders as the empty list does, and neither block depends on the
\* other list.
C5_AlertIffNonEmpty ==
    /\ ~view.threw
    /\ Len(view.errorAlert) = 1 <=> NonEmptyArray(RawField("wireviz_errors"))
    /\ Len(view.warningAlert) = 1 <=> NonEmptyArray(RawField("wireviz_warnings"))
    /\ Len(view.errorAlert) <= 1 /\ Len(view.warningAlert) <= 1
    /\ mounted.errors.shown <=> NonEmptyArray(RawField("wireviz_errors"))
    /\ mounted.warnings.shown <=> NonEmptyArray(RawField("wireviz_warnings"))
    /\ RawField("wireviz_errors") = Undefined
          => view = WirevizPanel(WithField("wireviz_errors", Arr(<< >>)))
    /\ RawField("wireviz_warnings") = Undefined
          => view = WirevizPanel(WithField("wireviz_warnings", Arr(<< >>)))
    /\ view.errorAlert =
          WirevizPanel(WithField("wireviz_warnings", Undefined)).errorAlert
    /\ view.warningAlert =
          WirevizPanel(WithField("wireviz_errors", Undefined)).warningAlert

\* errors present and shown while the warnings are the empty sequence
C5_Witness ==
    /\ RawField("wireviz_errors") = Arr(<< Str("x"), Str("y") >>)
    /\ RawField("wireviz_warnings") = Arr(<< >>)
    /\ Len(view.errorAlert) = 1
    /\ view.warningAlert = << >>

\* C6: a non-empty message list shows exactly one alert block, whose lines
\* are the messages of the list, one line per message, in input order and
\* unchanged, also when two messages are identical.
C6_OneLinePerMessage ==
    /\ NonEmptyArray(RawField("wireviz_errors"))
          => /\ Len(view.errorAlert) = 1
             /\ mounted.errors.shown
             /\ Displayed(mounted.errors) = RawField("wireviz_errors").a
    /\ NonEmptyArray(RawField("wireviz_warnings"))
          => /\ Len(view.warningAlert) = 1
             /\ mounted.warnings.shown
             /\ Displayed(mounted.warnings) = RawField("wireviz_warnings").a

\* C7: the source-file section is rendered exactly when wireviz_source_file
\* is a non-empty string, and its link then points at that value.
C7_SourceLinkIffNonEmpty ==
    /\ ~view.threw
    /\ Len(view.source) <= 1
    /\ Len(view.source) = 1 <=> NonEmptyString(RawField("wireviz_source_file"))
    /\ RawField("wireviz_source_file") \in {Undefined, Null, Str("")}
          => view.source = << >>
    /\ Len(view.source) = 1
          => view.source[1].href = RawField("wireviz_source_file")

\* a source file next to a different diagram file is linked as itself
C7_Witness ==
    /\ RawField("wireviz_source_file") = Str("g.wireviz")
    /\ RawField("wireviz_svg_file") = Str("a.svg")
    /\ view.source = << [el |-> "Anchor", href |-> Str("g.wireviz")] >>

ArrayFieldDefaulted(f, derived) ==
    IF Nullish(RawField(f)) THEN derived = Arr(<< >>) ELSE derived = RawField(f)

ScalarFieldDefaulted(f, derived) ==
    IF RawField(f) = Undefined THEN derived = Null ELSE derived = RawField(f)

\* C8: whichever of the five fields are absent (or the whole payload is),
\* the derived values are defaulted: an absent list is the empty sequence, an
\* absent scalar is null, a field that is present keeps its value, a field
\* the panel does not know changes nothing, and a missing wireviz_bom_data
\* gives a table with no body rows and no error.
C8_FullyDefaulted ==
    /\ ArrayFieldDefaulted("wireviz_bom_data", bomRows(context))
    /\ ArrayFieldDefaulted("wireviz_errors", wirevizErrors(context))
    /\ ArrayFieldDefaulted("wireviz_warnings", wirevizWarnings(context))
    /\ ScalarFieldDefaulted("wireviz_svg_file", wirevizDiagram(context))
    /\ ScalarFieldDefaulted("wireviz_source_file", wirevizSource(context))
    /\ HasPayload => view = WirevizPanel(WithField("part", Undefined))
    /\ RawField("wireviz_bom_data") = Undefined
          => ~view.threw /\ view.body = << >>
    /\ ~HasPayload
          => /\ ~view.threw
             /\ view.body = << >> /\ view.errorAlert = << >>
             /\ view.warningAlert = << >> /\ view.source = << >>
             /\ view.diagram[1].el = "Alert"

\* a payload without BOM and without source file that does carry a diagram,
\* warnings and a field the panel does not read
C8_Witness ==
    /\ RawField("wireviz_bom_data") = Undefined
    /\ RawField("wireviz_source_file") = Undefined
    /\ RawField("wireviz_errors") = Undefined
    /\ RawField("wireviz_svg_file") = Str("a.svg")
    /\ RawField("part") = Num(PartId)
    /\ wirevizWarnings(context) = Arr(<< Str("y") >>)
    /\ wirevizSource(context) = Null
    /\ view.body = << >>
    /\ view.diagram[1].el = "Image"

-----------------------------------------------------------------------------
(* The panel over malformed fields *)

MalformedLists ==
    { Undefined, Null, Str("oops"), Str(""), Num(7), Obj([length |-> Undefined]),
      Arr(<< Str("x") >>) }

MalformedBoms ==
    { Undefined, Null, Str("oops"), Obj([length |-> Undefined]), Arr(<< Null >>),
      Arr(<< Obj([designators |-> Str("X1")]) >>), Arr(<< Str("oops") >>) }

MalformedContexts ==
    { PluginContext(Payload(Str("a.svg"), Null, bom, errors, warnings,
                            Undefined, Num(PartId))) :
        bom \in MalformedBoms, errors \in MalformedLists,
        warnings \in MalformedLists }

InitMalformed == \E c \in MalformedContexts : Load(c)

UpdateMalformed == \E c \in MalformedContexts : HostUpdate(c)

NextMalformed == UpdateMalformed

SpecMalformed == InitMalformed /\ [][NextMalformed]_vars

\* C9: the render never throws for a missing or malformed optional field:
\* whatever wireviz_bom_data, wireviz_errors and wireviz_warnings hold
\* (nothing, null, a string, an object, a null or incomplete entry), the
\* render completes and yields a panel.
C9_NeverThrows == ~view.threw

-----------------------------------------------------------------------------
(* The part panel with its upload and delete forms *)

FormContexts ==
    { PluginContext(Payload(x[1], x[2], Arr(<< >>), Arr(<< >>), Arr(<< >>),
                            inner, Num(PartId))) :
        x \in { << Str("a.svg"), Str("h.wireviz") >>, << Null, Null >>,
                << Null, Str("h.wireviz") >> },
        inner \in InnerValues }

InitForms == \E c \in FormContexts : Load(c)

\* the part's data changed on the server and the host passes it on
UpdateForms == \E c \in FormContexts : HostUpdate(c)

NextForms ==
    \/ UpdateForms
    \/ \E form \in {"newDiagram", "deleteDiagram"} : OpenForm(form)
    \/ CancelForm
    \/ SubmitForm
    \/ FormSuccess
    \/ FormFailure
    \/ PageLoad

SpecForms == InitForms /\ [][NextForms]_vars

\* the step in which the host reports the success of a submission
Succeeds == request # "none" /\ rev' = rev + 1

\* C10: every successful upload and every successful delete requests a page
\* reload in the step that reports the success, and whenever the panel is
\* on a loaded page it shows the context fetched after the last mutation.
C10_SuccessReloads ==
    /\ [][Succeeds => page' = "reloading"]_vars
    /\ [](page = "loaded" => (shownRev = rev /\ context = PluginContext(server)
                                /\ view = WirevizPanel(PluginContext(server))))

\* the page has been reloaded after a successful delete and after a
\* successful upload, and shows what the server then held
C10_Witness ==
    /\ page = "loaded"
    /\ rev = 2
    /\ shownRev = 2
    /\ RawField("wireviz_svg_file") = Null
    /\ RawField("wireviz_source_file") = Null
    /\ view.diagram[1].el = "Alert"

\* the steps of a form: opening, cancelling, submitting, success, failure
FormStep == modal' # modal \/ request' # request

\* the step in which the host reports a failure, and the one that cancels
Fails == request # "none" /\ request' = "none" /\ rev' = rev
Cancels == modal # "none" /\ modal' = "none" /\ request = "none"

\* C11: no step of a form changes what the panel displays (the display
\* changes only when the page is loaded anew or the host passes another
\* context), and a reported failure or a cancel causes no reload, no
\* navigation and no new submission and leaves the server as it was.
C11_FireAndForget ==
    [][ /\ FormStep
            => (view' = view /\ mounted' = mounted /\ context' = context)
        /\ (modal # "none" /\ context' = context)
            => (view' = view /\ mounted' = mounted)
        /\ (Fails \/ Cancels)
            => /\ page' = "loaded"
               /\ navigations' = navigations
               /\ request' = "none"
               /\ posted' = posted
               /\ server' = server
               /\ rev' = rev /\ shownRev' = shownRev ]_vars

\* a delete was submitted and failed: the form is still open, nothing was
\* reloaded and the diagram is displayed as before
C11_Witness ==
    /\ modal = "deleteDiagram"
    /\ request = "none"
    /\ response = Failed
    /\ posted = Obj([part |-> Num(PartId)])
    /\ page = "loaded"
    /\ rev = 0
    /\ view.diagram[1].el = "Image"
    /\ view = WirevizPanel(context)

-----------------------------------------------------------------------------
(* The sections of the panel, one against the other *)

\* the line item of the end-to-end example
ExampleEntry ==
    Obj([ idx |-> Num(1), sub_part |-> Num(5), pn |-> Str("R1"),
          designators |-> Str("R1"), description |-> Str("resistor"),
          quantity |-> Num(1), unit |-> Null ])

ExampleContext ==
    PluginContext(Payload(Str("a.svg"), Undefined, Arr(<< ExampleEntry >>),
                          Arr(<< >>), Arr(<< >>), Undefined, Undefined))

SectionSvgs == { Undefined, Null, Str("a.svg") }
SectionSources == { Undefined, Null, Str("h.wireviz") }
SectionBoms == { Undefined, Null, Arr(<< >>), Arr(<< ExampleEntry >>) }
SectionErrors == { Arr(<< >>), Arr(<< Str("x") >>) }
SectionWarnings == { Arr(<< >>), Arr(<< Str("y") >>) }

\* every combination of diagram, source, BOM, errors and warnings
SectionContexts ==
    { PluginContext(Payload(svg, source, bom, errors, warnings, Undefined, Undefined)) :
        svg \in SectionSvgs, source \in SectionSources, bom \in SectionBoms,
        errors \in SectionErrors, warnings \in SectionWarnings }

InitSections == \E c \in SectionContexts : Load(c)

UpdateSections == \E c \in SectionContexts : HostUpdate(c)

NextSections == UpdateSections

SpecSections == InitSections /\ [][NextSections]_vars

\* the number of alert blocks the two message lists call for
AlertsCalledFor ==
    (IF NonEmptyArray(RawField("wireviz_errors")) THEN 1 ELSE 0)
    + (IF NonEmptyArray(RawField("wireviz_warnings")) THEN 1 ELSE 0)

\* C13: the sections degrade independently. In every combination the render
\* succeeds, the table header and exactly one diagram element are there;
\* replacing the diagram file changes the diagram slot and nothing else,
\* replacing the BOM changes the table body and nothing else; without a
\* diagram the slot holds the "no diagram" alert and the panel has no other
\* alert than those of the message lists; an empty or absent BOM gives a table
\* with no body rows and adds no alert.
C13_SectionsIndependent ==
    /\ ~view.threw
    /\ view.head = TableHead
    /\ Len(view.diagram) = 1
    /\ Len(view.body) = Len(bomRows(context).a)
    /\ Len(view.errorAlert) + Len(view.warningAlert) = AlertsCalledFor
    /\ \A svg \in SectionSvgs :
          LET other == WirevizPanel(WithField("wireviz_svg_file", svg))
          IN  other = [view EXCEPT !.diagram = other.diagram]
    /\ \A bom \in SectionBoms :
          LET other == WirevizPanel(WithField("wireviz_bom_data", bom))
          IN  other = [view EXCEPT !.body = other.body]
    /\ ~Truthy(RawField("wireviz_svg_file"))
          => view.diagram[1].el = "Alert"
    /\ ~NonEmptyArray(RawField("wireviz_bom_data"))
          => view.body = << >>

\* no diagram, a BOM row, an error block, and the table is still there
C13_Witness ==
    /\ RawField("wireviz_svg_file") = Null
    /\ view.diagram[1].el = "Alert"
    /\ Len(view.body) = 1
    /\ view.head = TableHead
    /\ Len(view.errorAlert) = 1
    /\ view.warningAlert = << >>
    /\ Len(view.source) = 1

\* C16: for the example context the panel shows the image of "a.svg" and no
\* "no diagram" alert, exactly one BOM row whose link leads to part 5 and
\* reads "R1", no error alert, no warning alert and no source section.
C16_EndToEnd ==
    context = ExampleContext
        => /\ ~view.threw
           /\ view.diagram = << [el |-> "Image", src |-> Str("a.svg"), title |-> ""] >>
           /\ Len(view.body) = 1
           /\ view.body[1].tr.part =
                  [el |-> "Anchor", href |-> Str("/part/5/"), text |-> Str("R1")]
           /\ view.body[1].tr.idx = Num(1)
           /\ view.errorAlert = << >>
           /\ view.warningAlert = << >>
           /\ view.source = << >>
           /\ ~mounted.errors.shown
           /\ ~mounted.warnings.shown

\* the example context is on display, with its row linked
C16_Witness ==
    /\ context = ExampleContext
    /\ view = WirevizPanel(ExampleContext)
    /\ HasLink(view.body[1].tr)

\* C14: the view is a function of the latest context alone: the element
\* tree is the one computed from the present context, and what is displayed
\* of the alerts is what a first render of that context displays.
C14_LatestContextOnly ==
    /\ view = WirevizPanel(context)
    /\ ~view.threw => mounted = Mount(view)

\* C19: the lines inside one alert block have pairwise distinct keys.
C19_DistinctLineKeys ==
    ~view.threw =>
        \A block \in { view.errorAlert, view.warningAlert } :
            \A b \in 1..Len(block) :
                \A i, j \in 1..Len(block[b].lines) :
                    i # j => block[b].lines[i].key # block[b].lines[j].key

\* C18: every element of the list handed to the table body carries a key,
\* the key is derived from idx, and entries with distinct idx get distinct
\* keys.
C18_ListKeysFromIdx ==
    \A i \in RowIndices :
        /\ view.body[i].key # Null
        /\ view.body[i].key = Str("bom-" \o ToStr(Get(EntryAt(i), "idx")))
        /\ \A j \in RowIndices :
              Get(EntryAt(i), "idx") # Get(EntryAt(j), "idx")
                  => view.body[i].key # view.body[j].key

-----------------------------------------------------------------------------
(* The earlier panels *)

\* variant: the earlier panel guards the link by sub_part alone
hasPartLinkSubPartOnly(row) == Truthy(Get(row, "sub_part"))

\* `const hasPartLink: boolean = !!row.sub_part && !!row.pn;`
hasPartLink(row) == Truthy(Get(row, "sub_part")) /\ Truthy(Get(row, "pn"))

\* the part cell of the earlier panel: the url is spelled out in place
EarlierPartCell(row) ==
    IF hasPartLink(row)
    THEN [el |-> "Anchor",
          href |-> Str("/part/" \o ToStr(Get(row, "sub_part")) \o "/"),
          text |-> Get(row, "pn")]
    ELSE [el |-> "Text", href |-> Str(""), text |-> Str("-")]

\* the same guard in the panel that came with the first settings page
hasPartLinkFirst(row) == Truthy(Get(row, "sub_part")) /\ Truthy(Get(row, "pn"))

FirstPartCell(row) ==
    IF hasPartLinkFirst(row)
    THEN [el |-> "Anchor",
          href |-> Str("/part/" \o ToStr(Get(row, "sub_part")) \o "/"),
          text |-> Get(row, "pn")]
    ELSE [el |-> "Text", href |-> Str(""), text |-> Str("-")]

\* `{% if v %}` of the template language: None, 0, '' and empty containers
\* are false, and so is a variable that does not resolve
TemplateTrue(v) ==
    CASE v.t = "array" -> v.a # << >>
      [] v.t = "object" -> DOMAIN v.o # {}
      [] OTHER -> Truthy(v)

\* the part cell of the server-rendered panel: a link under
\* `{% if item.sub_part %}`, else the part number in red with the
\* "No match found" icon
TemplatePartCell(item) ==
    IF TemplateTrue(Get(item, "sub_part"))
    THEN [el |-> "Anchor",
          href |-> Str("/part/" \o ToStr(Get(item, "sub_part")) \o "/"),
          text |-> Get(item, "pn")]
    ELSE [el |-> "Text", href |-> Str(""), text |-> Get(item, "pn"),
          color |-> "#F00", icon |-> "fa-times-circle", title |-> "No match found"]

CellLinks(cell) == cell.el = "Anchor" /\ cell.href # Str("")

\* the cell carries something that tells the reader of a problem
CellWarns(cell) ==
    \/ "icon" \in DOMAIN cell /\ cell.icon # ""
    \/ "color" \in DOMAIN cell /\ cell.color # ""

\* C15: every row whose entry has sub_part null is marked as unmatched by a
\* visible warning in the row.
C15_UnmatchedMarked ==
    \A i \in RowIndices :
        Get(EntryAt(i), "sub_part") = Null => CellWarns(RowAt(i).part)

\* C17 as stated: for every BOM entry the present panel, the two earlier panels and
\* the server-rendered template agree on whether the part cell is a link,
\* and none of them links an entry that has a sub_part and a null pn.
C17_AllVariantsAgree ==
    \A i \in RowIndices :
        /\ HasLink(RowAt(i)) = CellLinks(EarlierPartCell(EntryAt(i)))
        /\ HasLink(RowAt(i)) = CellLinks(FirstPartCell(EntryAt(i)))
        /\ HasLink(RowAt(i)) = CellLinks(TemplatePartCell(EntryAt(i)))
        /\ (~Nullish(Get(EntryAt(i), "sub_part")) /\ Get(EntryAt(i), "pn") = Null)
              => /\ ~HasLink(RowAt(i))
                 /\ ~CellLinks(EarlierPartCell(EntryAt(i)))
                 /\ ~CellLinks(FirstPartCell(EntryAt(i)))
                 /\ ~CellLinks(TemplatePartCell(EntryAt(i)))

\* C17 amended: the present panel and the two earlier panels agree on every
\* BOM entry: each links exactly when sub_part and pn are both truthy, with
\* the same text, and shows the dash otherwise. The server-rendered template links
\* exactly when sub_part is true in the template language, whatever pn is:
\* it links wherever the panels do, and it also links an entry that has a
\* sub_part and a null pn, which no panel links.
C17_PanelsAgreeTemplateOnSubPart ==
    \A i \in RowIndices :
        /\ \A cell \in { EarlierPartCell(EntryAt(i)), FirstPartCell(EntryAt(i)) } :
              /\ CellLinks(cell) = HasLink(RowAt(i))
              /\ cell.el = RowAt(i).part.el
              /\ cell.text = RowAt(i).part.text
              /\ CellLinks(cell) <=>
                    /\ Get(EntryAt(i), "sub_part") \notin {Undefined, Null, Num(0)}
                    /\ Get(EntryAt(i), "pn") \notin {Undefined, Null, Str("")}
        /\ CellLinks(TemplatePartCell(EntryAt(i)))
              <=> Get(EntryAt(i), "sub_part") \notin {Undefined, Null, Num(0)}
        /\ HasLink(RowAt(i))
              => /\ CellLinks(TemplatePartCell(EntryAt(i)))
                 /\ TemplatePartCell(EntryAt(i)).text = RowAt(i).part.text
        /\ (Truthy(Get(EntryAt(i), "sub_part")) /\ Get(EntryAt(i), "pn") = Null)
              => /\ ~HasLink(RowAt(i))
                 /\ CellLinks(TemplatePartCell(EntryAt(i)))

\* an entry with sub_part 5 and a null pn: the panel shows the dash, the
\* template a link
C17_Witness ==
    /\ RowIndices = {1}
    /\ Get(EntryAt(1), "sub_part") = Num(5)
    /\ Get(EntryAt(1), "pn") = Null
    /\ HasDash(RowAt(1))
    /\ CellLinks(TemplatePartCell(EntryAt(1)))

-----------------------------------------------------------------------------
(* WirevizSettings and WirevizDashboard *)

\* variant: the callback navigates whatever the response holds
NavigateAlways(data) ==
    << Str(ToStr(getDetailUrl(OptGet(data, "part"))) \o "/wireviz") >>

\* onFormSuccess of newDiagram in the settings panel and in the dashboard:
\* `if (data?.part) context.navigate(`${getDetailUrl(ModelType.part, data.part)}/wireviz`)`
\* (the urls it navigates to, none or one)
NavigateOnSuccess(data) ==
    IF Truthy(OptGet(data, "part"))
    THEN << Str(ToStr(getDetailUrl(Get(data, "part"))) \o "/wireviz") >>
    ELSE << >>

\* `context.context?.templates ?? []`
templates(ctx) == Coalesce(OptGet(Get(ctx, "context"), "templates"), Arr(<< >>))

\* the fields deleteTemplate is created with in a render
deleteTemplateFields(selected) == Obj([template |-> selected])

\* variant: the modal keeps the fields of the render in which open() was called
ModalFieldsStale(before, after) == deleteTemplateFields(before)

\* the fields the deleteTemplate modal shows after a render: the form is
\* created anew in every render, with the selectedTemplate of that render
ModalFields(before, after) == deleteTemplateFields(after)

\* the element tree of WirevizSettings: the template table or the alert
WirevizSettings(ctx) ==
    [ threw |-> FALSE,
      table |-> IF GreaterThanZero(LengthOf(templates(ctx)))
                THEN [i \in 1..Len(templates(ctx).a) |->
                        [key |-> ToStr(templates(ctx).a[i]), text |-> templates(ctx).a[i]]]
                ELSE << >>,
      alert |-> IF GreaterThanZero(LengthOf(templates(ctx)))
                THEN << >> ELSE << "No templates found" >> ]

\* the element tree of WirevizDashboard: a caption and the upload button
WirevizDashboard(ctx) ==
    [ threw |-> FALSE, table |-> << >>, alert |-> << "Upload Wireviz Diagram" >> ]

PanelView(p, ctx) ==
    IF p = "settings" THEN WirevizSettings(ctx) ELSE WirevizDashboard(ctx)

TemplateNames == { "a.html", "b.html", "c.html" }

\* the template files the server lists: distinct names
TemplateLists ==
    { Arr([i \in 1..Len(l) |-> Str(l[i])]) :
        l \in { q \in SeqsUpTo(TemplateNames, MaxTemplates) :
                  \A i, j \in 1..Len(q) : i # j => q[i] # q[j] } }

SettingsContexts ==
    { PluginContext(Obj([templates |-> t])) : t \in TemplateLists \cup { Undefined } }
    \cup { PluginContext(Undefined) }

\* the host mounts the settings panel or the dashboard item
LoadPanel(p, c) ==
    /\ context = c
    /\ view = PanelView(p, c)
    /\ mounted = [errors |-> Unmounted, warnings |-> Unmounted]
    /\ modal = "none"
    /\ request = "none"
    /\ page = "loaded"
    /\ server = Get(c, "context")
    /\ rev = 0
    /\ shownRev = 0
    /\ panel = p
    /\ navigations = << >>
    /\ posted = Undefined
    /\ response = NoResponse
    /\ selectedTemplate = Null
    /\ queued = << >>
    /\ formFields = Undefined
    /\ clicked = Null

\* "Upload New Diagram": newDiagram.open()
OpenUpload ==
    /\ panel \in {"settings", "dashboard"}
    /\ page = "loaded"
    /\ modal = "none"
    /\ queued = << >>
    /\ modal' = "newDiagram"
    /\ UNCHANGED <<context, view, mounted, request, page, server, rev, shownRev,
                   hostVars, settingsVars>>

\* the user picks a part and a file and submits the upload form
SubmitUpload(pk) ==
    /\ panel \in {"settings", "dashboard"}
    /\ page = "loaded"
    /\ modal = "newDiagram"
    /\ request = "none"
    /\ request' = "newDiagram"
    /\ posted' = Obj([part |-> Num(pk)])
    /\ UNCHANGED <<context, view, mounted, modal, page, server, rev, shownRev,
                   panel, navigations, response, settingsVars>>

\* what the upload endpoint may answer on success
ResponseData ==
    { Undefined, Null, Obj([part |-> Undefined]), Obj([part |-> Null]),
      Obj([part |-> Num(5)]), Obj([part |-> Num(6)]) }

\* the host reports the upload as successful, closes the form and calls
\* onFormSuccess(data); a navigation leaves the panel
UploadSuccess(data) ==
    /\ panel \in {"settings", "dashboard"}
    /\ page = "loaded"
    /\ request = "newDiagram"
    /\ request' = "none"
    /\ modal' = "none"
    /\ response' = Succeeded(data)
    /\ navigations' = navigations \o NavigateOnSuccess(data)
    /\ Len(navigations') <= MaxNav
    /\ page' = IF navigations' # navigations THEN "left" ELSE "loaded"
    /\ UNCHANGED <<context, view, mounted, server, rev, shownRev, panel, posted,
                   settingsVars>>

\* the user comes back to the panel, which is mounted anew
Return ==
    /\ page = "left"
    /\ page' = "loaded"
    /\ selectedTemplate' = Null
    /\ queued' = << >>
    /\ formFields' = Undefined
    /\ clicked' = Null
    /\ UNCHANGED <<context, view, mounted, modal, request, server, rev, shownRev,
                   hostVars>>

\* the delete button of a template row:
\* `setSelectedTemplate(template); deleteTemplate.open();`
\* both calls only queue a state update for the next render
ClickDelete(i) ==
    /\ panel = "settings"
    /\ page = "loaded"
    /\ queued = << >>
    /\ i \in 1..Len(view.table)
    /\ queued' = << [state |-> "selectedTemplate", value |-> view.table[i].text],
                    [state |-> "opened", value |-> Str("deleteTemplate")] >>
    /\ clicked' = view.table[i].text
    /\ UNCHANGED <<context, view, mounted, modal, request, page, server, rev,
                   shownRev, hostVars, selectedTemplate, formFields>>

\* the render after the click applies the queued updates, creates the forms
\* with the new selectedTemplate and shows the opened modal
RenderSettings ==
    /\ panel = "settings"
    /\ page = "loaded"
    /\ queued # << >>
    /\ selectedTemplate' = queued[1].value
    /\ modal' = queued[2].value.s
    /\ formFields' = ModalFields(selectedTemplate, selectedTemplate')
    /\ queued' = << >>
    /\ view' = WirevizSettings(context)
    /\ UNCHANGED <<context, mounted, request, page, server, rev, shownRev,
                   hostVars, clicked>>

\* the user confirms the delete: the host posts the fields of the form
SubmitTemplate ==
    /\ panel = "settings"
    /\ page = "loaded"
    /\ modal = "deleteTemplate"
    /\ request = "none"
    /\ queued = << >>
    /\ request' = "deleteTemplate"
    /\ posted' = formFields
    /\ UNCHANGED <<context, view, mounted, modal, page, server, rev, shownRev,
                   panel, navigations, response, settingsVars>>

\* the host reports the delete as successful and closes the form; the
\* onFormSuccess of deleteTemplate does nothing
TemplateSuccess ==
    /\ panel = "settings"
    /\ page = "loaded"
    /\ request = "deleteTemplate"
    /\ queued = << >>
    /\ request' = "none"
    /\ modal' = "none"
    /\ response' = Succeeded(Undefined)
    /\ UNCHANGED <<context, view, mounted, page, server, rev, shownRev, panel,
                   navigations, posted, settingsVars>>

InitSettings ==
    \E p \in {"settings", "dashboard"} : \E c \in SettingsContexts : LoadPanel(p, c)

NextSettings ==
    \/ OpenUpload
    \/ \E pk \in {5, 6} : SubmitUpload(pk)
    \/ \E data \in ResponseData : UploadSuccess(data)
    \/ Return
    \/ \E i \in 1..MaxTemplates : ClickDelete(i)
    \/ RenderSettings
    \/ SubmitTemplate
    \/ TemplateSuccess
    \/ FormFailure
    \/ CancelForm

SpecSettings == InitSettings /\ [][NextSettings]_vars

\* the step in which the host reports the upload as successful
UploadSucceeds ==
    /\ panel \in {"settings", "dashboard"}
    /\ request = "newDiagram" /\ request' = "none" /\ response'.ok

\* the response names a part
CarriesPart(data) ==
    /\ data.t = "object"
    /\ Get(data, "part").t = "number"
    /\ Get(data, "part").n > 0

\* C12: in the settings panel and the dashboard a navigation happens only
\* in the step that reports the upload successful, only when the response
\* carries a part id, exactly once, and to the detail url of that part
\* followed by "/wireviz"; a success without a part id navigates nowhere.
C12_NavigateIffPart ==
    [][ /\ navigations' # navigations
            => /\ UploadSucceeds
               /\ CarriesPart(response'.data)
        /\ (UploadSucceeds /\ CarriesPart(response'.data))
            => navigations' =
                  Append(navigations,
                         Str("/part/" \o ToString(Get(response'.data, "part").n)
                               \o "/" \o "/wireviz"))
        /\ (UploadSucceeds /\ ~CarriesPart(response'.data))
            => navigations' = navigations ]_vars

\* one upload answered without a part id and one answered with part 6
C12_Witness ==
    /\ panel = "dashboard"
    /\ response = Succeeded(Obj([part |-> Num(6)]))
    /\ navigations = << Str("/part/6//wireviz") >>
    /\ page = "left"

\* the step in which the delete-template form is submitted
SubmitsTemplate == request = "none" /\ request' = "deleteTemplate"

\* C20: whenever the delete-template form of the settings panel is
\* submitted, the template it sends is the one of the most recently clicked
\* row: never null, never the one of an earlier click.
C20_SubmitsClicked ==
    [][ SubmitsTemplate
            => /\ clicked # Null
               /\ posted' = Obj([template |-> clicked])
               /\ Get(posted', "template").t = "string" ]_vars

\* a delete of "a.html" failed and was cancelled, then the row of "b.html"
\* was clicked and its delete submitted
C20_Witness ==
    /\ panel = "settings"
    /\ templates(context) = Arr(<< Str("a.html"), Str("b.html") >>)
    /\ request = "deleteTemplate"
    /\ response = Failed
    /\ clicked = Str("b.html")
    /\ posted = Obj([template |-> Str("b.html")])

-----------------------------------------------------------------------------
(* The editing controls of the part panel *)

\* a payload that carries can_edit next to the wireviz fields
WithFlag(payload, flag) ==
    Obj([f \in DOMAIN payload.o \cup {"can_edit"} |->
            IF f = "can_edit" THEN flag ELSE payload.o[f]])

FlagValues == { Undefined, Bool(TRUE), Bool(FALSE) }

\* diagram and source file present or not, can_edit absent, true or false,
\* in the payload itself and in the `context` object inside the payload
EditContexts ==
    { PluginContext(WithFlag(Payload(x[1], x[2], Arr(<< >>), Arr(<< >>), Arr(<< >>),
                                     inner, Num(PartId)), flag)) :
        x \in { << Str("a.svg"), Str("h.wireviz") >>, << Null, Null >>,
                << Str("a.svg"), Str("") >>, << Null, Str("h.wireviz") >> },
        inner \in InnerValues, flag \in FlagValues }

InitEdit == \E c \in EditContexts : Load(c)

UpdateEdit == \E c \in EditContexts : HostUpdate(c)

NextEdit ==
    \/ UpdateEdit
    \/ \E form \in {"newDiagram", "deleteDiagram"} : OpenForm(form)
    \/ CancelForm
    \/ SubmitForm
    \/ FormSuccess
    \/ FormFailure
    \/ PageLoad

SpecEdit == InitEdit /\ [][NextEdit]_vars

\* the host says the user may edit: can_edit = true in the payload
HostAllowsEdit ==
    \/ RawField("can_edit") = Bool(TRUE)
    \/ OptGet(RawField("context"), "can_edit") = Bool(TRUE)

\* the editing controls that the view holds
HasMenu == ~view.threw /\ view.menu # << >>
HasModals == ~view.threw /\ view.modals = << "newDiagram", "deleteDiagram" >>
NoControls == ~view.threw /\ view.menu = << >> /\ view.modals = << >>

\* a step that opens a form, and one that submits one
Opens == modal = "none" /\ modal' # "none"
Submits == request = "none" /\ request' # "none"

\* the part of C21 that is about the flag the panel derives: menu and
\* modals are there together, exactly when the derived flag is true, no
\* form is opened or submitted without it, and an absent flag is false
EditControlsFollowCanEdit ==
    /\ [](page = "loaded" =>
            /\ (HasMenu /\ HasModals) \/ NoControls
            /\ HasMenu <=> canEdit(context) = Bool(TRUE)
            /\ OptGet(RawField("context"), "can_edit") = Undefined => NoControls)
    /\ [][(Opens \/ Submits) => canEdit(context) = Bool(TRUE)]_vars

\* C21: on a loaded page the upload modal, the delete modal and the actions
\* menu are rendered exactly when the host supplies can_edit = true in the
\* payload, an absent flag counts as false, and no form is on screen while
\* the flag is false or absent.
C21_EditControlsIffAllowed ==
    page = "loaded" =>
        /\ (HasMenu /\ HasModals) \/ NoControls
        /\ HostAllowsEdit => HasMenu
        /\ HasMenu => HostAllowsEdit
        /\ ModalShown => HostAllowsEdit

\* the source file of the present context
SourceFile == RawField("wireviz_source_file")

\* the part of C22 that is about what the panel derives: "Remove Diagram"
\* is in the menu exactly when the derived flag is true and the source file
\* is a non-empty string, and the delete form is opened only then
RemoveFollowsCanEditAndSource ==
    /\ [](page = "loaded" =>
            ("deleteDiagram" \in Offered
                <=> (canEdit(context) = Bool(TRUE) /\ NonEmptyString(SourceFile))))
    /\ [][(Opens /\ modal' = "deleteDiagram")
            => (canEdit(context) = Bool(TRUE) /\ NonEmptyString(SourceFile))]_vars

\* the delete request goes out for a part whose context names a source file
DeleteOnlyWithSource ==
    (page = "loaded" /\ request = "deleteDiagram") => NonEmptyString(SourceFile)

\* C22: "Remove Diagram" is offered exactly when the host allows editing and
\* wireviz_source_file is non-empty; so whenever a diagram is shown with its
\* source file and the user may edit, the removal is offered, and a delete
\* request is under way only for a part that has a source file.
C22_RemoveIffEditableWithSource ==
    /\ page = "loaded" =>
          /\ "deleteDiagram" \in Offered
                <=> (HostAllowsEdit /\ NonEmptyString(SourceFile))
          /\ (view.diagram[1].el = "Image" /\ NonEmptyString(SourceFile)
                /\ HostAllowsEdit) => "deleteDiagram" \in Offered
    /\ DeleteOnlyWithSource

====
